---- MODULE Spec2Model ----
(***************************************************************************)
(* Model of src/streamlit_app.py: the "Upload de PDF" batch run of the     *)
(* boleto extractor.  A run converts each uploaded PDF to page images,     *)
(* sends each page to the Gemini service, folds every returned record into *)
(* todos_dados / todos_itens and finally exports two sheets.               *)
(*                                                                         *)
(* Python values are tagged records (Str, Num, PyNone, List); a Python     *)
(* dict is a TLA+ function whose DOMAIN is the set of keys present, so a   *)
(* key that is missing and a key that holds JSON null are different.       *)
(* An uploaded file's name is identified with its upload position.         *)
(***************************************************************************)
EXTENDS Integers, Sequences, FiniteSets, TLC

\* ------------------------------------------------------------------ bounds
MaxDocs == 2
MaxPages == 2
MaxItems == 2
MaxTexto == 4

\* ----------------------------------------------------------- Python values
Str(s) == [str |-> s]
Num(n) == [num |-> n]
PyNone == [none |-> TRUE]
List(s) == [list |-> s]

\* the empty dict {}
DictVazio == <<>>

\* dict.get(k, default): the default is used only when the key is missing
Get(d, k, default) == IF k \in DOMAIN d THEN d[k] ELSE default

\* truth value of what extrair_dados_com_gemini returns: None and {} are falsy
Truthy(v) == v # PyNone /\ DOMAIN v # {}

\* a value a for loop can iterate and len() can measure
Iteravel(v) == "list" \in DOMAIN v

\* len(v) for a list
PyLen(v) == Len(v.list)

NaoIdentificado == Str("Nao identificado")

\* ------------------------------------------------ records the service returns
\* line items as the model may return them: a complete item, an item with no
\* keys, an item with a label only; position n of a list holds ItemAt(n)
Catalogo ==
  << [item |-> Str("Aluguel"), valor |-> Num(1)],
     DictVazio,
     [item |-> Str("IPTU")] >>

ItemAt(n) == Catalogo[((n - 1) % Len(Catalogo)) + 1]

ListaItens(k) == List([n \in 1..k |-> ItemAt(n)])

\* a record with every key of the prompt's schema and k items
RecCompleto(k) ==
  [empreendimento |-> Str("Shopping"), loja |-> Str("L1"),
   data_vencimento |-> Str("10/01"), valor_total |-> Num(100),
   itens |-> ListaItens(k)]

\* no due date, no total, an empty item list
RecSemVencimento ==
  [empreendimento |-> Str("Shopping"), loja |-> Str("L1"), itens |-> ListaItens(0)]

\* the unit and the total are JSON null, no 'itens' key
RecLojaNula ==
  [empreendimento |-> Str("Shopping"), loja |-> PyNone,
   data_vencimento |-> Str("10/01"), valor_total |-> PyNone]

\* 'itens' is JSON null
RecItensNulo ==
  [empreendimento |-> Str("Shopping"), loja |-> Str("L1"), itens |-> PyNone]

\* the object with no keys, a complete record with MaxItems items, and the three
\* incomplete ones
Records ==
  {DictVazio, RecCompleto(MaxItems), RecSemVencimento, RecLojaNula, RecItensNulo}

\* ------------------------------------------------------------- Aggregator
\* dados['arquivo'] = uploaded_file.name ; dados['pagina'] = j + 1
ComOrigem(dados, nome, pagina) ==
  [k \in DOMAIN dados \cup {"arquivo", "pagina"} |->
     IF k = "arquivo" THEN nome
     ELSE IF k = "pagina" THEN pagina
     ELSE dados[k]]

\* item_completo
ItemCompleto(nome, pagina, dados, item) ==
  [arquivo |-> nome,
   pagina |-> pagina,
   empreendimento |-> Get(dados, "empreendimento", NaoIdentificado),
   loja |-> Get(dados, "loja", NaoIdentificado),
   data_vencimento |-> Get(dados, "data_vencimento", NaoIdentificado),
   item |-> Get(item, "item", NaoIdentificado),
   valor |-> Get(item, "valor", Num(0))]

ItemCompletoCols ==
  <<"arquivo", "pagina", "empreendimento", "loja", "data_vencimento", "item", "valor">>

\* the items taken from the last to the first
ItensDaPagina_Invertido(nome, pagina, dados) ==
  IF "itens" \in DOMAIN dados
    THEN [n \in 1..PyLen(dados["itens"]) |->
            ItemCompleto(nome, pagina, dados,
                         dados["itens"].list[PyLen(dados["itens"]) + 1 - n])]
    ELSE <<>>

\* the rows the loop "for item in dados['itens']" appends, in order
ItensDaPagina(nome, pagina, dados) ==
  IF "itens" \in DOMAIN dados
    THEN [n \in 1..PyLen(dados["itens"]) |->
            ItemCompleto(nome, pagina, dados, dados["itens"].list[n])]
    ELSE <<>>

\* the loop raises TypeError when 'itens' is present and not iterable
ItensLevantaErro(dados) ==
  "itens" \in DOMAIN dados /\ ~Iteravel(dados["itens"])

\* one row of df_resumo
ResumoRow(d) ==
  [Arquivo |-> d["arquivo"],
   Pagina |-> d["pagina"],
   Empreendimento |-> Get(d, "empreendimento", NaoIdentificado),
   Loja_Unidade |-> Get(d, "loja", NaoIdentificado),
   Data_Vencimento |-> Get(d, "data_vencimento", NaoIdentificado),
   Valor_Total |-> Get(d, "valor_total", Num(0)),
   Quantidade_de_Itens |-> PyLen(Get(d, "itens", List(<<>>)))]

ResumoCols ==
  <<"Arquivo", "Pagina", "Empreendimento", "Loja_Unidade", "Data_Vencimento",
    "Valor_Total", "Quantidade_de_Itens">>

\* pd.DataFrame(list of dicts): the columns are the keys of the dicts, so a
\* frame built from an empty list has no columns
PdDataFrame(rows, cols) ==
  [columns |-> IF Len(rows) = 0 THEN <<>> ELSE cols, rows |-> rows]

\* ------------------------------------------------------- Extraction Client
\* the characters of a response text: braces, "k" for one member of an object
\* (a key with a scalar value, or the key of an object value when "{" follows)
\* and "x" for any other text
Alfabeto == {"{", "}", "k", "x"}

\* str.find(c): 0-based index of the first occurrence, -1 when there is none
Find(s, c) ==
  IF \E n \in 1..Len(s) : s[n] = c
    THEN (CHOOSE n \in 1..Len(s) : s[n] = c /\ \A m \in 1..(n - 1) : s[m] # c) - 1
    ELSE -1

\* find in the place of rfind: the first occurrence
RFind_Primeira(s, c) ==
  IF \E n \in 1..Len(s) : s[n] = c
    THEN (CHOOSE n \in 1..Len(s) : s[n] = c /\ \A m \in 1..(n - 1) : s[m] # c) - 1
    ELSE -1

\* str.rfind(c): 0-based index of the last occurrence, -1 when there is none
RFind(s, c) ==
  IF \E n \in 1..Len(s) : s[n] = c
    THEN (CHOOSE n \in 1..Len(s) : s[n] = c /\ \A m \in (n + 1)..Len(s) : s[m] # c) - 1
    ELSE -1

\* s[a:b] for 0 <= a <= b <= len(s)
Slice(s, a, b) == SubSeq(s, a + 1, b)

JSONDecodeError == [erro |-> "JSONDecodeError"]

RECURSIVE ParseObjeto(_, _)
RECURSIVE ParseMembros(_, _, _)

\* an object starting at position p: [ok, pos (the position after it), val]
ParseObjeto(s, p) ==
  IF p > Len(s) \/ s[p] # "{"
    THEN [ok |-> FALSE]
    ELSE ParseMembros(s, p + 1, <<>>)

ParseMembros(s, p, acc) ==
  IF p > Len(s) THEN [ok |-> FALSE]
  ELSE IF s[p] = "}" THEN [ok |-> TRUE, pos |-> p + 1, val |-> [obj |-> acc]]
  ELSE IF s[p] # "k" THEN [ok |-> FALSE]
  ELSE IF p + 1 <= Len(s) /\ s[p + 1] = "{"
    THEN LET r == ParseObjeto(s, p + 1)
         IN  IF r.ok THEN ParseMembros(s, r.pos, Append(acc, r.val))
             ELSE [ok |-> FALSE]
    ELSE ParseMembros(s, p + 1, Append(acc, [escalar |-> TRUE]))

\* json.loads: the whole text must be one value
JsonLoads(s) ==
  LET r == ParseObjeto(s, 1)
  IN  IF r.ok /\ r.pos = Len(s) + 1 THEN r.val ELSE JSONDecodeError

\* lines 103-119: locate the JSON in the response text and parse it.
\* sinal is the message shown: "sem_json" for line 114, "erro_gemini" for the
\* handler of line 118, "ok" when a record is returned
ExtrairJSON(resposta_texto) ==
  LET inicio == Find(resposta_texto, "{")
      fim == RFind(resposta_texto, "}") + 1
  IN  IF inicio >= 0 /\ fim > inicio
        THEN LET json_text == Slice(resposta_texto, inicio, fim)
                 valor == JsonLoads(json_text)
             IN  IF valor = JSONDecodeError
                   THEN [retorno |-> PyNone, sinal |-> "erro_gemini",
                         json_text |-> List(json_text)]
                   ELSE [retorno |-> valor, sinal |-> "ok",
                         json_text |-> List(json_text)]
        ELSE [retorno |-> PyNone, sinal |-> "sem_json", json_text |-> PyNone]

\* what model.generate_content can produce for one page: an exception of the
\* service, or a text together with the record its JSON denotes
TextoSemJSON == <<"x", "}", "x", "{">>
TextoJSONInvalido == <<"{", "x", "}">>
TextoComJSON == <<"x", "{", "k", "k", "}", "x">>

Respostas ==
  {[tipo |-> "erro_servico"]}
    \cup {[tipo |-> "texto", texto |-> t, conteudo |-> DictVazio] :
            t \in {TextoSemJSON, TextoJSONInvalido}}
    \cup {[tipo |-> "texto", texto |-> TextoComJSON, conteudo |-> r] : r \in Records}

\* the call of imagem_para_base64 (line 72) is inside the try of line 55, so
\* what it raises reaches the except clause of lines 117-119
ExcecaoDeCodificacao_Propagada == "propagada"

ExcecaoDeCodificacao == "erro_codificacao"

\* lines 50-73: what happens before the request is sent
PrepararChamada(chave, codificacao) ==
  IF chave = "" THEN "sem_chave"
  ELSE IF codificacao = "erro" THEN ExcecaoDeCodificacao
  ELSE "enviar"

\* lines 102-119: what extrair_dados_com_gemini returns for a response
ExtrairDaResposta(resp) ==
  IF resp.tipo = "erro_servico"
    THEN [dados |-> PyNone, resultado |-> "erro_servico"]
    ELSE LET e == ExtrairJSON(resp.texto)
         IN  IF e.sinal = "ok" THEN [dados |-> resp.conteudo, resultado |-> "ok"]
             ELSE IF e.sinal = "sem_json"
               THEN [dados |-> PyNone, resultado |-> "sem_json"]
               ELSE [dados |-> PyNone, resultado |-> "json_invalido"]

\* ---------------------------------------------------------- Page Renderer
\* the PDFs a file may hold: one convert_from_bytes rejects, or one of n pages
PDFs ==
  {[valido |-> FALSE, paginas |-> 0]}
    \cup {[valido |-> TRUE, paginas |-> n] : n \in 1..MaxPages}

\* converter_pdf_para_imagens: the number of images; the empty list when the
\* conversion raised
ConverterPdfParaImagens(pdf) == IF pdf.valido THEN pdf.paginas ELSE 0

\* --------------------------------------------------------- fold and export
\* the fold without the test of line 160: dados['arquivo'] = ... raises on None
Agregar_SemTeste(td, ti, dados, nome, pagina) ==
  IF dados = PyNone
    THEN [todos_dados |-> td, todos_itens |-> ti, excecao |-> TRUE]
    ELSE IF ItensLevantaErro(dados)
           THEN [todos_dados |-> Append(td, ComOrigem(dados, nome, pagina)),
                 todos_itens |-> ti, excecao |-> TRUE]
           ELSE [todos_dados |-> Append(td, ComOrigem(dados, nome, pagina)),
                 todos_itens |-> ti \o ItensDaPagina(nome, pagina, dados),
                 excecao |-> FALSE]

\* lines 160-186: fold one returned value into the two lists
Agregar(td, ti, dados, nome, pagina) ==
  IF Truthy(dados)
    THEN IF ItensLevantaErro(dados)
           THEN [todos_dados |-> Append(td, ComOrigem(dados, nome, pagina)),
                 todos_itens |-> ti, excecao |-> TRUE]
           ELSE [todos_dados |-> Append(td, ComOrigem(dados, nome, pagina)),
                 todos_itens |-> ti \o ItensDaPagina(nome, pagina, dados),
                 excecao |-> FALSE]
    ELSE [todos_dados |-> td, todos_itens |-> ti, excecao |-> FALSE]

\* the export decided by todos_itens in the place of todos_dados
Exportar_PorItens(td, ti) ==
  IF Len(ti) > 0
    THEN [excel |-> [Resumo |-> PdDataFrame([n \in 1..Len(td) |-> ResumoRow(td[n])],
                                            ResumoCols),
                     Itens_Detalhados |-> PdDataFrame(ti, ItemCompletoCols)],
          aviso |-> FALSE]
    ELSE [excel |-> PyNone, aviso |-> TRUE]

\* lines 192-233: the two sheets, or the notice
Exportar(td, ti) ==
  IF Len(td) > 0
    THEN [excel |-> [Resumo |-> PdDataFrame([n \in 1..Len(td) |-> ResumoRow(td[n])],
                                            ResumoCols),
                     Itens_Detalhados |-> PdDataFrame(ti, ItemCompletoCols)],
          aviso |-> FALSE]
    ELSE [excel |-> PyNone, aviso |-> TRUE]

\* line 189
Progresso(n, total) == <<n, total>>

\* line 151: enumerate(imagens) gives each page once, whatever its extraction gave
ProximaPagina_RepeteFalha(pagina, dados) == IF dados = PyNone THEN pagina ELSE pagina + 1

ProximaPagina(pagina, dados) == pagina + 1

\* ------------------------------------------------------------------- state
VARIABLES
  uploaded_files,   \* the uploaded files, in upload order
  api_key,          \* "" when none was typed
  botao,            \* st.button("Processar Boletos") returned True
  pc,               \* position of the script
  i,                \* 1-based position of the current file
  j,                \* 1-based page of the current file
  imagens,          \* number of images of the current file
  todos_dados,
  todos_itens,
  progress,         \* last value given to the progress bar, <<numerator, denominator>>
  excel,            \* the workbook offered for download, PyNone when none
  aviso,            \* "Nenhum dado foi extraido dos PDFs." was shown
  em_voo,           \* requests sent to the service and not yet answered
  chamada,          \* <<file, page>> of the last request sent
  ultimo,           \* outcome of the last page or conversion that ended
  resposta,         \* response text under ExtrairJSON (SpecJSON)
  extraido          \* what ExtrairJSON gave for resposta (SpecJSON)

vars ==
  <<uploaded_files, api_key, botao, pc, i, j, imagens, todos_dados, todos_itens,
    progress, excel, aviso, em_voo, chamada, ultimo, resposta, extraido>>

Pendente == [sinal |-> "pendente"]

Arquivos == {[k \in 1..n |-> k] : n \in 0..MaxDocs}

Init ==
  /\ uploaded_files \in Arquivos
  /\ api_key \in {"", "chave"}
  /\ botao = FALSE
  /\ pc = "script"
  /\ i = 0
  /\ j = 0
  /\ imagens = 0
  /\ todos_dados = <<>>
  /\ todos_itens = <<>>
  /\ progress = <<0, 1>>
  /\ excel = PyNone
  /\ aviso = FALSE
  /\ em_voo = 0
  /\ chamada = <<0, 0>>
  /\ ultimo = [arquivo |-> 0, pagina |-> 0, resultado |-> "nenhum", dados |-> PyNone]
  /\ resposta = <<>>
  /\ extraido = Pendente

\* lines 127-133: the run starts only with files, a key and the button pressed;
\* otherwise the script goes on to the footer
Guarda ==
  /\ pc = "script"
  /\ \E clique \in BOOLEAN :
       LET inicia == Len(uploaded_files) > 0 /\ api_key # "" /\ clique
       IN  /\ botao' = inicia
           /\ pc' = IF inicia THEN "for_i" ELSE "fim"
           /\ i' = IF inicia THEN 1 ELSE i
  /\ UNCHANGED <<uploaded_files, api_key, j, imagens, todos_dados, todos_itens,
                 progress, excel, aviso, em_voo, chamada, ultimo, resposta, extraido>>

\* lines 135-148: next file of the loop, converted to images
ConverterArquivo ==
  /\ pc = "for_i"
  /\ i <= Len(uploaded_files)
  /\ \E pdf \in PDFs :
       LET n == ConverterPdfParaImagens(pdf)
       IN  IF n = 0
             THEN /\ i' = i + 1
                  /\ pc' = "for_i"
                  /\ ultimo' = [arquivo |-> uploaded_files[i], pagina |-> 0,
                                resultado |-> "erro_render", dados |-> PyNone]
                  /\ UNCHANGED <<j, imagens>>
             ELSE /\ imagens' = n
                  /\ j' = 1
                  /\ pc' = "for_j"
                  /\ UNCHANGED <<i, ultimo>>
  /\ UNCHANGED <<uploaded_files, api_key, botao, todos_dados, todos_itens, progress,
                 excel, aviso, em_voo, chamada, resposta, extraido>>

\* lines 151-102: next page of the loop, up to the request to the service
IniciarExtracao ==
  /\ pc = "for_j"
  /\ j <= imagens
  /\ \E codificacao \in {"ok", "erro"} :
       LET passo == PrepararChamada(api_key, codificacao)
       IN  CASE passo = "enviar" ->
                  /\ pc' = "chamada"
                  /\ em_voo' = em_voo + 1
                  /\ chamada' = <<uploaded_files[i], j>>
                  /\ UNCHANGED <<j, ultimo>>
             [] passo = "propagada" ->   \* an exception no handler catches ends the script
                  /\ pc' = "excecao"
                  /\ ultimo' = [arquivo |-> uploaded_files[i], pagina |-> j,
                                resultado |-> "erro_codificacao", dados |-> PyNone]
                  /\ UNCHANGED <<j, em_voo, chamada>>
             [] OTHER ->
                  /\ pc' = "for_j"
                  /\ j' = ProximaPagina(j, PyNone)
                  /\ ultimo' = [arquivo |-> uploaded_files[i], pagina |-> j,
                                resultado |-> passo, dados |-> PyNone]
                  /\ UNCHANGED <<em_voo, chamada>>
  /\ UNCHANGED <<uploaded_files, api_key, botao, i, imagens, todos_dados, todos_itens,
                 progress, excel, aviso, resposta, extraido>>

\* lines 102-186: the service answers (or raises) and the result is folded
ReceberResposta ==
  /\ pc = "chamada"
  /\ \E resp \in Respostas :
       LET r == ExtrairDaResposta(resp)
           a == Agregar(todos_dados, todos_itens, r.dados, uploaded_files[i], j)
       IN  /\ todos_dados' = a.todos_dados
           /\ todos_itens' = a.todos_itens
           /\ ultimo' = [arquivo |-> uploaded_files[i], pagina |-> j,
                         resultado |-> r.resultado, dados |-> r.dados]
           /\ IF a.excecao
                THEN /\ pc' = "excecao"
                     /\ UNCHANGED j
                ELSE /\ pc' = "for_j"
                     /\ j' = ProximaPagina(j, r.dados)
  /\ em_voo' = em_voo - 1
  /\ UNCHANGED <<uploaded_files, api_key, botao, i, imagens, progress, excel, aviso,
                 chamada, resposta, extraido>>

\* line 189: after the last page of a file
AtualizarProgresso ==
  /\ pc = "for_j"
  /\ j > imagens
  /\ progress' = Progresso(i, Len(uploaded_files))
  /\ i' = i + 1
  /\ pc' = "for_i"
  /\ UNCHANGED <<uploaded_files, api_key, botao, j, imagens, todos_dados, todos_itens,
                 excel, aviso, em_voo, chamada, ultimo, resposta, extraido>>

\* lines 192-233: after the last file
ExibirResultados ==
  /\ pc = "for_i"
  /\ i > Len(uploaded_files)
  /\ LET e == Exportar(todos_dados, todos_itens)
     IN  /\ excel' = e.excel
         /\ aviso' = e.aviso
  /\ pc' = "fim"
  /\ UNCHANGED <<uploaded_files, api_key, botao, i, j, imagens, todos_dados,
                 todos_itens, progress, em_voo, chamada, ultimo, resposta, extraido>>

Next ==
  \/ Guarda
  \/ ConverterArquivo
  \/ IniciarExtracao
  \/ ReceberResposta
  \/ AtualizarProgresso
  \/ ExibirResultados

Spec == Init /\ [][Next]_vars

\* ------------------------------------------- ExtrairJSON on arbitrary texts
Textos == UNION {[1..n -> Alfabeto] : n \in 0..MaxTexto}

InitJSON ==
  /\ resposta \in Textos
  /\ extraido = Pendente
  /\ uploaded_files = <<>>
  /\ api_key = "chave"
  /\ botao = FALSE
  /\ pc = "resposta"
  /\ i = 0
  /\ j = 0
  /\ imagens = 0
  /\ todos_dados = <<>>
  /\ todos_itens = <<>>
  /\ progress = <<0, 1>>
  /\ excel = PyNone
  /\ aviso = FALSE
  /\ em_voo = 0
  /\ chamada = <<0, 0>>
  /\ ultimo = [arquivo |-> 0, pagina |-> 0, resultado |-> "nenhum", dados |-> PyNone]

\* lines 103-119 applied to the response text
LocalizarJSON ==
  /\ pc = "resposta"
  /\ extraido = Pendente
  /\ extraido' = ExtrairJSON(resposta)
  /\ pc' = "retorno"
  /\ UNCHANGED <<uploaded_files, api_key, botao, i, j, imagens, todos_dados,
                 todos_itens, progress, excel, aviso, em_voo, chamada, ultimo, resposta>>

NextJSON == LocalizarJSON

SpecJSON == InitJSON /\ [][NextJSON]_vars

\* ================================================================== claims
\* ---- vocabulary of the claims
\* (a, p) comes before (b, q): file upload order, then page order
Antes(a, p, b, q) == a < b \/ (a = b /\ p < q)

\* positions of the rows of a list that come from page p of file a
LinhasDe(rows, a, p) ==
  {n \in DOMAIN rows : rows[n]["arquivo"] = a /\ rows[n]["pagina"] = p}

\* the rows of a list that come from page p of file a, in the list's order
LinhasDaPagina(rows, a, p) ==
  LET Da(row) == row["arquivo"] = a /\ row["pagina"] = p
  IN  SelectSeq(rows, Da)

\* the number of line items of a record: 0 when it has no item list
NumItens(d) ==
  IF "itens" \in DOMAIN d /\ Iteravel(d["itens"]) THEN PyLen(d["itens"]) ELSE 0

EhPrefixo(s, t) == Len(s) <= Len(t) /\ SubSeq(t, 1, Len(s)) = s

\* the last event is the end of a page's iteration of the page loop
UltimoEhPagina == ultimo.pagina >= 1

\* the failures of a page that C2 names, and the failure of a conversion
FalhasDeExtracao == {"erro_servico", "sem_json", "json_invalido"}

\* a progress value equal to n / d
ProgressoVale(n, d) == progress[1] * d = n * progress[2]

\* C1 (as stated): for any record parsed for a page, the object with no keys
\* included, with k line items, the fold appends exactly one SummaryRow and
\* exactly k DetailRows with the page's (file, page), and the SummaryRow's item
\* count is k.
C1_FoldAppendsOneSummaryAndKDetails ==
  (UltimoEhPagina /\ ultimo.resultado = "ok") =>
    LET a == ultimo.arquivo
        p == ultimo.pagina
        k == NumItens(ultimo.dados)
        sumarios == LinhasDe(todos_dados, a, p)
    IN  /\ Cardinality(sumarios) = 1
        /\ Cardinality(LinhasDe(todos_itens, a, p)) = k
        /\ pc # "excecao" =>
             \A n \in sumarios : ResumoRow(todos_dados[n]).Quantidade_de_Itens = k

\* C2: a failure of a conversion or of a page's extraction (service error, no
\* JSON located, parse failure) adds no row, removes no row, and leaves the run
\* at the next page of the same file (page failure) or at the next file
\* (conversion failure); the file position moves on only after the last page
\* of the file, and the results are shown only after the last file.
C2_FailureNeverAbortsBatch ==
  /\ [][(ultimo' # ultimo /\ ultimo'.resultado \in FalhasDeExtracao) =>
          /\ todos_dados' = todos_dados
          /\ todos_itens' = todos_itens
          /\ pc' = "for_j" /\ i' = i /\ imagens' = imagens /\ j' = j + 1]_vars
  /\ [][(ultimo' # ultimo /\ ultimo'.resultado = "erro_render") =>
          /\ todos_dados' = todos_dados
          /\ todos_itens' = todos_itens
          /\ pc' = "for_i" /\ i' = i + 1]_vars
  /\ [][(i' # i /\ pc = "for_j") => j = imagens + 1]_vars
  /\ [][(pc' = "fim" /\ botao') => i = Len(uploaded_files) + 1]_vars

\* the first file and the first page of the second file gave nothing, the
\* second page of the second file gave the only row of the finished run
C2_Witness ==
  /\ pc = "fim"
  /\ Len(todos_dados) = 1
  /\ todos_dados[1]["arquivo"] = 2
  /\ todos_dados[1]["pagina"] = 2

\* C3 (as stated): at the end of any run, zero uploaded documents included,
\* an empty Batch gives no artifact and the notice, a non-empty Batch gives
\* the artifact and no notice.
C3_ExportOrNotice_AnyRun ==
  (pc = "fim" /\ (botao \/ Len(uploaded_files) = 0)) =>
    /\ Len(todos_dados) = 0 => (excel = PyNone /\ aviso)
    /\ Len(todos_dados) > 0 => (excel # PyNone /\ ~aviso)

\* C3 (amended): at the end of any run that started (at least one uploaded
\* document, a credential, the button pressed), an empty Batch gives no
\* artifact and the notice, a non-empty Batch gives the artifact and no notice.
C3_ExportOrNotice ==
  (pc = "fim" /\ botao) =>
    /\ Len(todos_dados) = 0 => (excel = PyNone /\ aviso)
    /\ Len(todos_dados) > 0 => (excel # PyNone /\ ~aviso)

\* a started run ended with pages processed and nothing extracted
C3_Witness ==
  /\ pc = "fim"
  /\ botao
  /\ UltimoEhPagina
  /\ Len(todos_dados) = 0
  /\ aviso
  /\ excel = PyNone

\* C4 (as stated): in every row, a site, unit or due date missing from the
\* record is the placeholder, a missing total is 0, a missing item label is the
\* placeholder, a missing item value is 0, and none of these fields is absent.
C4_DefaultingUniform ==
  /\ \A n \in DOMAIN todos_itens :
       \A f \in {"empreendimento", "loja", "data_vencimento", "item", "valor"} :
         todos_itens[n][f] # PyNone
  /\ \A n \in DOMAIN todos_dados :
       LET d == todos_dados[n]
       IN  ~ItensLevantaErro(d) =>
             LET r == ResumoRow(d)
             IN  /\ "empreendimento" \notin DOMAIN d => r.Empreendimento = NaoIdentificado
                 /\ "loja" \notin DOMAIN d => r.Loja_Unidade = NaoIdentificado
                 /\ "data_vencimento" \notin DOMAIN d => r.Data_Vencimento = NaoIdentificado
                 /\ "valor_total" \notin DOMAIN d => r.Valor_Total = Num(0)
                 /\ r.Empreendimento # PyNone
                 /\ r.Loja_Unidade # PyNone
                 /\ r.Data_Vencimento # PyNone
                 /\ r.Valor_Total # PyNone

\* C5: todos_dados is ordered by file then page (each row before the next),
\* todos_itens by file then page then by the order of the items in the page's
\* record, and every step leaves the rows already in the two lists where they
\* are.
C5_RowsAppendedInOrder ==
  /\ [](\A n \in 1..(Len(todos_dados) - 1) :
          Antes(todos_dados[n]["arquivo"], todos_dados[n]["pagina"],
                todos_dados[n + 1]["arquivo"], todos_dados[n + 1]["pagina"]))
  /\ [](\A n \in 1..(Len(todos_itens) - 1) :
          ~Antes(todos_itens[n + 1].arquivo, todos_itens[n + 1].pagina,
                 todos_itens[n].arquivo, todos_itens[n].pagina))
  /\ [](\A n \in DOMAIN todos_dados :
          LET d == todos_dados[n]
              linhas == LinhasDaPagina(todos_itens, d["arquivo"], d["pagina"])
          IN  /\ Len(linhas) = NumItens(d)
              /\ \A k \in DOMAIN linhas :
                   /\ linhas[k].item = Get(d["itens"].list[k], "item", NaoIdentificado)
                   /\ linhas[k].valor = Get(d["itens"].list[k], "valor", Num(0)))
  /\ [][EhPrefixo(todos_dados, todos_dados') /\ EhPrefixo(todos_itens, todos_itens')]_vars

\* rows of two files and of two pages of one file, with several items of a page
C5_Witness ==
  /\ pc = "fim"
  /\ \E m, n \in DOMAIN todos_dados :
       /\ todos_dados[m]["arquivo"] = 1 /\ todos_dados[n]["arquivo"] = 2
       /\ Cardinality(LinhasDe(todos_itens, 1, todos_dados[m]["pagina"])) >= 2
       /\ Cardinality(LinhasDe(todos_itens, 2, todos_dados[n]["pagina"])) >= 2
  /\ \E m, n \in DOMAIN todos_dados :
       /\ todos_dados[m]["arquivo"] = todos_dados[n]["arquivo"]
       /\ todos_dados[m]["pagina"] # todos_dados[n]["pagina"]

\* C6 (as stated): whenever the workbook is exported, the summary sheet has
\* its seven columns and the detail sheet has the seven DetailRow columns,
\* also when there is no DetailRow.
C6_ColumnsFixed ==
  excel # PyNone =>
    /\ excel.Resumo.columns = ResumoCols
    /\ excel.Itens_Detalhados.columns = ItemCompletoCols

\* C7 (as stated): a failure of the image encoding stops the run, and no
\* failure of a conversion, of the service, of the JSON location or of the
\* parse does.
C7_EncodingFailureIsFatal ==
  /\ ultimo.resultado = "erro_codificacao" => pc = "excecao"
  /\ ultimo.resultado \in FalhasDeExtracao \cup {"erro_render"} => pc # "excecao"

\* C7 (amended): no failure of the image encoding, of a conversion, of the
\* service, of the JSON location or of the parse stops the run; a page whose
\* encoding failed is a page with no data: it has no row in either list.
C7_NoListedFailureIsFatal ==
  /\ ultimo.resultado \in FalhasDeExtracao \cup {"erro_render", "erro_codificacao"}
       => pc # "excecao"
  /\ ultimo.resultado = "erro_codificacao" =>
       /\ LinhasDe(todos_dados, ultimo.arquivo, ultimo.pagina) = {}
       /\ LinhasDe(todos_itens, ultimo.arquivo, ultimo.pagina) = {}

\* the run went on to its end after the encoding of its last page failed, and
\* an earlier page had given a row
C7_Witness ==
  /\ pc = "fim"
  /\ ultimo.resultado = "erro_codificacao"
  /\ Len(todos_dados) > 0

\* C8 (as stated): once a file's processing has ended, the progress bar holds
\* (files ended) / N before the next file starts and until it ends, so it holds
\* N / N at the end of the run; it never changes between two pages of a file.
C8_ProgressAfterEachDocument ==
  botao => ProgressoVale(i - 1, Len(uploaded_files))

\* C9: ExtrairJSON returns None with the "no structured data" message and
\* parses nothing when the text has no "{", no "}" or its last "}" before its
\* first "{"; otherwise it parses exactly the text from the first "{" to the
\* last "}" inclusive, and returns the parsed value, or None when the parse fails.
C9_JSONLocation ==
  pc = "retorno" =>
    LET abre == {n \in DOMAIN resposta : resposta[n] = "{"}
        fecha == {n \in DOMAIN resposta : resposta[n] = "}"}
        primeiro == CHOOSE n \in abre : \A m \in abre : n <= m
        ultima == CHOOSE n \in fecha : \A m \in fecha : m <= n
    IN  IF abre = {} \/ fecha = {} \/ ultima < primeiro
          THEN /\ extraido.retorno = PyNone
               /\ extraido.sinal = "sem_json"
               /\ extraido.json_text = PyNone
          ELSE LET candidato == [n \in 1..(ultima - primeiro + 1) |->
                                   resposta[primeiro + n - 1]]
               IN  /\ extraido.json_text = List(candidato)
                   /\ IF JsonLoads(candidato) = JSONDecodeError
                        THEN extraido.retorno = PyNone /\ extraido.sinal = "erro_gemini"
                        ELSE /\ extraido.retorno = JsonLoads(candidato)
                             /\ extraido.sinal = "ok"

\* a record was parsed out of a text with other text before and after it
C9_Witness ==
  /\ pc = "retorno"
  /\ extraido.sinal = "ok"
  /\ resposta[1] = "x"
  /\ resposta[Len(resposta)] = "x"

\* C10 (as stated): the service is invoked once for each rendered page: when
\* the iteration of a page has ended and no later request is in flight, the
\* last request sent is the request of that page.
C10_OneCallPerRenderedPage ==
  (UltimoEhPagina /\ pc # "chamada") =>
    chamada = <<ultimo.arquivo, ultimo.pagina>>

\* C10 (amended): at most one request is in flight, and only while the run
\* waits for it; every page whose iteration has ended had its request sent,
\* unless what precedes the request (the image encoding) failed, and then none
\* was sent for it; a request is sent only when none is in flight, for the
\* page the loop is at, which comes after the page of the request before it,
\* and after the rows of that page are in todos_dados.
C10_SequentialCalls ==
  /\ [](em_voo \in {0, 1} /\ (em_voo = 1 <=> pc = "chamada"))
  /\ []((UltimoEhPagina /\ pc # "chamada") =>
          (ultimo.resultado # "erro_codificacao"
             <=> chamada = <<ultimo.arquivo, ultimo.pagina>>))
  /\ [][em_voo' > em_voo =>
          /\ em_voo = 0
          /\ pc = "for_j" /\ j \in 1..imagens
          /\ chamada' = <<uploaded_files[i], j>>
          /\ Antes(chamada[1], chamada[2], chamada'[1], chamada'[2])
          /\ (ultimo.resultado = "ok" /\ Truthy(ultimo.dados)) =>
               LinhasDe(todos_dados, ultimo.arquivo, ultimo.pagina) # {}]_vars
  /\ [][chamada' # chamada => em_voo' > em_voo]_vars

\* the request of a page is in flight after the encoding of the page before
\* it failed and no request was sent for that page
C10_Witness ==
  /\ pc = "chamada"
  /\ ultimo.resultado = "erro_codificacao"
  /\ ultimo.arquivo = chamada[1]
  /\ ultimo.pagina + 1 = chamada[2]

====
